---- MODULE Spec2Model ----
(***************************************************************************)
(* take_screenshots.py: a command-line entry point that checks that the    *)
(* PDF path exists and then calls extract_pdf_pages_as_jpg, which          *)
(* rasterizes the PDF, creates the output directory and saves every page   *)
(* as page_NN.jpg.  The model follows one output directory over several    *)
(* invocations of the program, so that what a run leaves behind is what    *)
(* the next run finds.                                                     *)
(***************************************************************************)
EXTENDS Integers, Sequences, FiniteSets

VARIABLES
    inputs,        \* the PDF paths a user may pass on the command line
    dirExists,     \* file system: the output directory exists
    files,         \* file system: file name -> content, the output directory's files
    run,           \* number of invocations of the program so far
    pc,            \* position of the running process in the code
    pdf_file,      \* args.pdf_file of the running process
    images,        \* the list returned by convert_from_path (page colour modes)
    it,            \* number of items the enumerate iterator has yielded
    i,             \* loop variable i
    image,         \* loop variable image (its colour mode)
    output_path,   \* loop variable output_path (the digits of the file name)
    exc,           \* the exception in flight
    num_pages,     \* value returned by extract_pdf_pages_as_jpg (-1: not returned)
    exit_code,     \* exit status of the process (-1: still running)
    out,           \* standard output of the running process
    calls,         \* history: calls of extract_pdf_pages_as_jpg by this process
    saves,         \* history: the calls of image.save made by this process
    failedAt,      \* history: the step of this process that raised
    converted,     \* history: image.convert was called on the current image
    startFiles,    \* history: files when this process started
    startDir,      \* history: dirExists when this process started
    prevNum        \* history: num_pages of the previous process

vars == <<inputs, dirExists, files, run, pc, pdf_file, images, it, i, image,
          output_path, exc, num_pages, exit_code, out, calls, saves, failedAt,
          converted, startFiles, startDir, prevNum>>

(***************************************************************************)
(* Bounds of the model.                                                    *)
(***************************************************************************)
MaxPages == 3        \* longest PDF of the runs with failures
MaxRuns == 2         \* invocations of the program in one behaviour
LongPages == 101     \* longest PDF of the failure-free runs

Modes == {"RGB", "RGBA", "L"}

\* the page colour modes of the PDFs of the failure-free runs, by page
ModeCycle == <<"RGB", "RGBA", "L">>

\* an output directory without files
EmptyDir == [n \in {} |-> n]

(***************************************************************************)
(* Pure functions of the code.                                             *)
(***************************************************************************)

\* the decimal digits of n, most significant first ("" for 0)
RECURSIVE Digits(_)
Digits(n) == IF n = 0 THEN <<>> ELSE Append(Digits(n \div 10), n % 10)

\* a format that keeps exactly two digits
Format02dWidthTwo(n) == <<(n \div 10) % 10, n % 10>>

\* Python's format spec "02d": the decimal digits, zero-padded on the left to
\* a minimum width of 2 (a wider number keeps all its digits)
Format02d(n) ==
    LET d == IF n = 0 THEN <<0>> ELSE Digits(n)
    IN  IF Len(d) < 2 THEN <<0>> \o d ELSE d

\* f"page_{i}.jpg": no padding
PageNameNoPad(n) == IF n = 0 THEN <<0>> ELSE Digits(n)

\* f"page_{i:02d}.jpg" under output_dir: the file is identified by the digits
\* between "page_" and ".jpg"
PageName(n) == Format02d(n)

\* enumerate(images): counting from 0
EnumStartZero == 1 - 1

\* first index of enumerate(images, 1)
EnumStart == 1

\* os.path.isfile(pdf_file)
ExistsIsFile(p) == p.kind \in {"notpdf", "pdf"}

\* os.path.exists(pdf_file): true of a file and of a directory
Exists(p) == p.kind # "missing"

\* image.mode == 'RGBA'
NeedsConvertAlphaOnly(mode) == mode = "RGBA"

\* image.mode != 'RGB'
NeedsConvert(mode) == mode # "RGB"

\* image.convert('RGB'): the result's mode
ConvertRGB(mode) == "RGB"

\* the exception classes the steps of the extractor raise
ConvertErrors == {"PDFPageCountError", "MemoryError"}
MakedirsErrors == {"PermissionError"}
SaveErrors == {"OSError"}

\* except OSError
IsExceptionOSOnly(e) == e \in {"PermissionError", "OSError"}

\* except Exception: the classes derived from Exception
IsException(e) == e \in ConvertErrors \cup MakedirsErrors \cup SaveErrors

Msg(kind, val) == [kind |-> kind, val |-> val]

(***************************************************************************)
(* The PDFs on disk.                                                       *)
(***************************************************************************)
RECURSIVE SeqsUpTo(_, _)
SeqsUpTo(S, n) ==
    IF n = 0 THEN {<<>>}
    ELSE LET shorter == SeqsUpTo(S, n - 1)
         IN  shorter \cup {Append(s, x) : s \in {t \in shorter : Len(t) = n - 1}, x \in S}

Pdf(pages) == [kind |-> "pdf", pages |-> pages]

\* a missing path, a directory, a file that is no PDF, and every PDF of up to
\* MaxPages pages
SmallInputs ==
    {[kind |-> k, pages |-> <<>>] : k \in {"missing", "dir", "notpdf"}}
    \cup {Pdf(d) : d \in SeqsUpTo(Modes, MaxPages)}

CycleDoc(n) == [k \in 1..n |-> ModeCycle[((k - 1) % Len(ModeCycle)) + 1]]

\* PDFs of 1 and 2 pages and of about LongPages pages
LongInputs == {Pdf(CycleDoc(n)) : n \in {1, 2} \cup ((LongPages - 2)..LongPages)}

(***************************************************************************)
(* Initial states: no process has run; the output directory is absent or   *)
(* present and empty.                                                      *)
(***************************************************************************)
InitCommon ==
    /\ dirExists \in BOOLEAN
    /\ files = EmptyDir
    /\ run = 0
    /\ pc = "idle"
    /\ pdf_file = [kind |-> "missing", pages |-> <<>>]
    /\ images = <<>>
    /\ it = 0
    /\ i = 0
    /\ image = "none"
    /\ output_path = <<>>
    /\ exc = "none"
    /\ num_pages = -1
    /\ exit_code = -1
    /\ out = <<>>
    /\ calls = 0
    /\ saves = <<>>
    /\ failedAt = "none"
    /\ converted = FALSE
    /\ startFiles = EmptyDir
    /\ startDir = dirExists
    /\ prevNum = -1

Init == inputs = SmallInputs /\ InitCommon

InitNoFault == inputs = LongInputs /\ InitCommon

(***************************************************************************)
(* Actions.                                                                *)
(***************************************************************************)

\* the user runs the program: argparse fills pdf_file (lines 38-51)
Invoke ==
    /\ pc \in {"idle", "exited"}
    /\ run < MaxRuns
    /\ run' = run + 1
    /\ pdf_file' \in inputs
    /\ pc' = "main"
    /\ images' = <<>>
    /\ it' = 0
    /\ i' = 0
    /\ image' = "none"
    /\ output_path' = <<>>
    /\ exc' = "none"
    /\ num_pages' = -1
    /\ exit_code' = -1
    /\ out' = <<>>
    /\ calls' = 0
    /\ saves' = <<>>
    /\ failedAt' = "none"
    /\ converted' = FALSE
    /\ startFiles' = files
    /\ startDir' = dirExists
    /\ prevNum' = num_pages
    /\ UNCHANGED <<inputs, dirExists, files>>

\* the existence check without its exit(1)
MainNoExit ==
    /\ pc = "main"
    /\ IF ~Exists(pdf_file)
       THEN /\ out' = Append(out, Msg("NotFound", pdf_file))
            /\ pc' = "convert"
            /\ calls' = calls + 1
            /\ exit_code' = exit_code
       ELSE /\ pc' = "convert"
            /\ calls' = calls + 1
            /\ UNCHANGED <<out, exit_code>>
    /\ UNCHANGED <<inputs, dirExists, files, run, pdf_file, images, it, i, image,
                   output_path, exc, num_pages, saves, failedAt, converted, startFiles,
                   startDir, prevNum>>

\* lines 54-59: the existence check, exit(1), or the call of the extractor
Main ==
    /\ pc = "main"
    /\ IF ~Exists(pdf_file)
       THEN /\ out' = Append(out, Msg("NotFound", pdf_file))
            /\ exit_code' = 1
            /\ pc' = "exited"
            /\ calls' = calls
       ELSE /\ pc' = "convert"
            /\ calls' = calls + 1
            /\ UNCHANGED <<out, exit_code>>
    /\ UNCHANGED <<inputs, dirExists, files, run, pdf_file, images, it, i, image,
                   output_path, exc, num_pages, saves, failedAt, converted, startFiles,
                   startDir, prevNum>>

\* lines 13-14: the notice, and convert_from_path returns one image per page
ConvertOk ==
    /\ pc = "convert"
    /\ pdf_file.kind = "pdf"
    /\ out' = Append(out, Msg("Converting", pdf_file))
    /\ images' = pdf_file.pages
    /\ pc' = "makedirs"
    /\ UNCHANGED <<inputs, dirExists, files, run, pdf_file, it, i, image,
                   output_path, exc, num_pages, exit_code, calls, saves, failedAt,
                   converted, startFiles, startDir, prevNum>>

\* os.makedirs called before convert_from_path
ConvertRaiseDirFirst ==
    /\ pc = "convert"
    /\ out' = Append(out, Msg("Converting", pdf_file))
    /\ exc' \in (IF pdf_file.kind = "pdf" THEN ConvertErrors ELSE {"PDFPageCountError"})
    /\ failedAt' = "convert"
    /\ pc' = "except"
    /\ dirExists' = TRUE
    /\ UNCHANGED <<inputs, files, run, pdf_file, images, it, i, image,
                   output_path, num_pages, exit_code, calls, saves, converted, startFiles,
                   startDir, prevNum>>

\* lines 13-14: convert_from_path raises: always for a path that is no PDF,
\* and possibly for a PDF (poppler missing, out of memory)
ConvertRaise ==
    /\ pc = "convert"
    /\ out' = Append(out, Msg("Converting", pdf_file))
    /\ exc' \in (IF pdf_file.kind = "pdf" THEN ConvertErrors ELSE {"PDFPageCountError"})
    /\ failedAt' = "convert"
    /\ pc' = "except"
    /\ UNCHANGED <<inputs, dirExists, files, run, pdf_file, images, it, i, image,
                   output_path, num_pages, exit_code, calls, saves, converted, startFiles,
                   startDir, prevNum>>

\* the directory emptied before it is (re)created
MakedirsClearing ==
    /\ pc = "makedirs"
    /\ dirExists' = TRUE
    /\ files' = EmptyDir
    /\ pc' = "loop"
    /\ UNCHANGED <<inputs, run, pdf_file, images, it, i, image, output_path,
                   exc, num_pages, exit_code, out, calls, saves, failedAt,
                   converted, startFiles, startDir, prevNum>>

\* line 17: os.makedirs(output_dir, exist_ok=True) succeeds
Makedirs ==
    /\ pc = "makedirs"
    /\ dirExists' = TRUE
    /\ pc' = "loop"
    /\ UNCHANGED <<inputs, files, run, pdf_file, images, it, i, image, output_path,
                   exc, num_pages, exit_code, out, calls, saves, failedAt,
                   converted, startFiles, startDir, prevNum>>

\* line 17: os.makedirs raises; it cannot when the directory exists
MakedirsRaise ==
    /\ pc = "makedirs"
    /\ ~dirExists
    /\ exc' \in MakedirsErrors
    /\ failedAt' = "makedirs"
    /\ pc' = "except"
    /\ UNCHANGED <<inputs, dirExists, files, run, pdf_file, images, it, i, image,
                   output_path, num_pages, exit_code, out, calls, saves,
                   converted, startFiles, startDir, prevNum>>

\* lines 20-21: the next (i, image) of enumerate(images, 1) and its path, or
\* the end of the loop
LoopNext ==
    /\ pc = "loop"
    /\ IF it < Len(images)
       THEN /\ it' = it + 1
            /\ i' = EnumStart + it
            /\ image' = images[it + 1]
            /\ output_path' = PageName(EnumStart + it)
            /\ converted' = FALSE
            /\ pc' = "mode"
       ELSE /\ pc' = "summary"
            /\ UNCHANGED <<it, i, image, output_path, converted>>
    /\ UNCHANGED <<inputs, dirExists, files, run, pdf_file, images, exc, num_pages,
                   exit_code, out, calls, saves, failedAt, startFiles, startDir,
                   prevNum>>

\* lines 24-25
Normalize ==
    /\ pc = "mode"
    /\ image' = IF NeedsConvert(image) THEN ConvertRGB(image) ELSE image
    /\ converted' = NeedsConvert(image)
    /\ pc' = "save"
    /\ UNCHANGED <<inputs, dirExists, files, run, pdf_file, images, it, i,
                   output_path, exc, num_pages, exit_code, out, calls, saves,
                   failedAt, startFiles, startDir, prevNum>>

\* what image.save is called with, and whether the image was converted first
SaveCall == [path |-> output_path, mode |-> image, page |-> it,
             converted |-> converted]

FileOf(complete) == [run |-> run, page |-> it, mode |-> image, complete |-> complete]

\* line 28: image.save writes the file, replacing a file of that name
Save ==
    /\ pc = "save"
    /\ saves' = Append(saves, SaveCall)
    /\ files' = [n \in DOMAIN files \cup {output_path} |->
                    IF n = output_path THEN FileOf(TRUE) ELSE files[n]]
    /\ pc' = "saved"
    /\ UNCHANGED <<inputs, dirExists, run, pdf_file, images, it, i, image,
                   output_path, exc, num_pages, exit_code, out, calls, failedAt,
                   converted, startFiles, startDir, prevNum>>

\* line 28: image.save raises (disk full, permission): the path is left as
\* it was, or holds a truncated file
SaveRaise ==
    /\ pc = "save"
    /\ saves' = Append(saves, SaveCall)
    /\ exc' \in SaveErrors
    /\ failedAt' = "save"
    /\ pc' = "except"
    /\ \/ files' = files
       \/ files' = [n \in DOMAIN files \cup {output_path} |->
                       IF n = output_path THEN FileOf(FALSE) ELSE files[n]]
    /\ UNCHANGED <<inputs, dirExists, run, pdf_file, images, it, i, image,
                   output_path, num_pages, exit_code, out, calls, converted, startFiles,
                   startDir, prevNum>>

\* line 29
PrintSaved ==
    /\ pc = "saved"
    /\ out' = Append(out, Msg("Saved", output_path))
    /\ pc' = "loop"
    /\ UNCHANGED <<inputs, dirExists, files, run, pdf_file, images, it, i, image,
                   output_path, exc, num_pages, exit_code, calls, saves, failedAt,
                   converted, startFiles, startDir, prevNum>>

\* lines 31-32
Summary ==
    /\ pc = "summary"
    /\ out' = Append(out, Msg("Extracted", Len(images)))
    /\ num_pages' = Len(images)
    /\ pc' = "report"
    /\ UNCHANGED <<inputs, dirExists, files, run, pdf_file, images, it, i, image,
                   output_path, exc, exit_code, calls, saves, failedAt, converted, startFiles,
                   startDir, prevNum>>

\* lines 34-36: an exception derived from Exception is printed and turned
\* into 0; any other leaves the function and ends the process with a traceback
Except ==
    /\ pc = "except"
    /\ IF IsException(exc)
       THEN /\ out' = Append(out, Msg("Error", exc))
            /\ num_pages' = 0
            /\ pc' = "report"
            /\ exit_code' = exit_code
       ELSE /\ pc' = "exited"
            /\ exit_code' = 1
            /\ UNCHANGED <<out, num_pages>>
    /\ UNCHANGED <<inputs, dirExists, files, run, pdf_file, images, it, i, image,
                   output_path, exc, calls, saves, failedAt, converted, startFiles, startDir,
                   prevNum>>

\* num_pages >= 0
ReportNonNegative ==
    /\ pc = "report"
    /\ out' = Append(out, IF num_pages >= 0 THEN Msg("Success", num_pages)
                                            ELSE Msg("Failed", num_pages))
    /\ exit_code' = 0
    /\ pc' = "exited"
    /\ UNCHANGED <<inputs, dirExists, files, run, pdf_file, images, it, i, image,
                   output_path, exc, num_pages, calls, saves, failedAt, converted, startFiles,
                   startDir, prevNum>>

\* lines 61-65, and the normal end of the script
Report ==
    /\ pc = "report"
    /\ out' = Append(out, IF num_pages > 0 THEN Msg("Success", num_pages)
                                           ELSE Msg("Failed", num_pages))
    /\ exit_code' = 0
    /\ pc' = "exited"
    /\ UNCHANGED <<inputs, dirExists, files, run, pdf_file, images, it, i, image,
                   output_path, exc, num_pages, calls, saves, failedAt, converted, startFiles,
                   startDir, prevNum>>

Next ==
    \/ Invoke
    \/ Main
    \/ ConvertOk
    \/ ConvertRaise
    \/ Makedirs
    \/ MakedirsRaise
    \/ LoopNext
    \/ Normalize
    \/ Save
    \/ SaveRaise
    \/ PrintSaved
    \/ Summary
    \/ Except
    \/ Report

Spec == Init /\ [][Next]_vars

\* the runs in which no step raises, on PDFs of up to LongPages pages
NextNoFault ==
    \/ Invoke
    \/ Main
    \/ ConvertOk
    \/ Makedirs
    \/ LoopNext
    \/ Normalize
    \/ Save
    \/ PrintSaved
    \/ Summary
    \/ Report

SpecNoFault == InitNoFault /\ [][NextNoFault]_vars

(***************************************************************************)
(* Vocabulary of the properties.                                           *)
(***************************************************************************)

\* the extractor was called by the running process and has returned
Returned == calls = 1 /\ pc \in {"report", "exited"}

\* the files of the output directory that the running process wrote
Produced == {n \in DOMAIN files : files[n].run = run}

\* the file names page_01 ... page_<n> as the specification writes them
\* (two digits below 100)
SpecName(k) == <<k \div 10, k % 10>>

\* the number a file name denotes
RECURSIVE Value(_)
Value(d) == IF d = <<>> THEN 0 ELSE 10 * Value(SubSeq(d, 1, Len(d) - 1)) + d[Len(d)]

Printed(kind) == {k \in DOMAIN out : out[k].kind = kind}

IsSaved(m) == m.kind = "Saved"

SavedNotices == SelectSeq(out, IsSaved)

\* page k of the running process's PDF, saved whole in RGB
PageFile(k) == [run |-> run, page |-> k, mode |-> "RGB", complete |-> TRUE]

(***************************************************************************)
(* C1: a failure-free run on a valid PDF of N pages, 1 <= N < 100, returns *)
(* N and produces exactly the N files page_01 ... page_NN: each holds its  *)
(* page, the run wrote no other file, and a directory that was empty (or   *)
(* absent) before the run holds these files and nothing else.              *)
(***************************************************************************)
C1_ExactlyNFiles ==
    (Returned /\ failedAt = "none" /\ pdf_file.kind = "pdf"
        /\ Len(pdf_file.pages) \in 1..99)
    => LET N == Len(pdf_file.pages)
           expected == {SpecName(k) : k \in 1..N}
       IN  /\ num_pages = N
           /\ Produced = expected
           /\ Cardinality(Produced) = N
           /\ \A k \in 1..N : files[SpecName(k)] = PageFile(k)
           /\ startFiles = EmptyDir => DOMAIN files = expected

C1_Witness ==
    /\ pc = "exited"
    /\ num_pages = 99
    /\ Cardinality(DOMAIN files) = 99
    /\ <<9, 9>> \in DOMAIN files

(***************************************************************************)
(* C2: given a path that does not exist, the process prints the error      *)
(* naming the path and nothing else, ends with exit code 1, never calls    *)
(* the extractor, and leaves the output directory and its files as they    *)
(* were.                                                                   *)
(***************************************************************************)
C2_MissingFileExits1 ==
    (run >= 1 /\ pdf_file.kind = "missing" /\ pc # "main")
    => /\ pc = "exited"
       /\ exit_code = 1
       /\ calls = 0
       /\ Len(out) = 1
       /\ out[1].kind = "NotFound"
       /\ out[1].val = pdf_file
       /\ dirExists = startDir
       /\ files = startFiles
       /\ saves = <<>>

C2_Witness ==
    /\ pc = "exited"
    /\ pdf_file.kind = "missing"
    /\ exit_code = 1
    /\ ~dirExists

(***************************************************************************)
(* C3: a failure raised by rasterization, by the creation of the directory *)
(* or by the saving of a page is caught in the extractor: once the         *)
(* extractor is left, it has printed the error with the failure's          *)
(* description and returned 0, the caller went on to its report (the       *)
(* process ends with exit code 0, not with a traceback), and every file    *)
(* written earlier in the run is still in place.                           *)
(***************************************************************************)
C3_FailureCaught ==
    /\ (failedAt # "none" /\ pc \in {"report", "exited"})
       => /\ num_pages = 0
          /\ calls = 1
          /\ \E k \in Printed("Error") : out[k].val = exc
          /\ pc = "exited" => (exit_code = 0 /\ Printed("Failed") # {})
    /\ failedAt # "none"
       => \A k \in 1..(Len(saves) - 1) :
             /\ saves[k].path \in DOMAIN files
             /\ files[saves[k].path] = PageFile(saves[k].page)

C3_Witness ==
    /\ pc = "exited"
    /\ failedAt = "save"
    /\ Len(saves) = 3
    /\ num_pages = 0
    /\ Cardinality(Produced) >= 2

(***************************************************************************)
(* C4 as claimed: at the end of every run of the extractor the number of   *)
(* files the run produced equals the number of pages rasterized, and the   *)
(* files are page 1 ... page n without gaps.                               *)
(***************************************************************************)
C4_Original ==
    Returned
    => /\ Cardinality(Produced) = Len(images)
       /\ Produced = {PageName(k) : k \in 1..Cardinality(Produced)}

(***************************************************************************)
(* C4 amended: at the end of every run of the extractor the files the run  *)
(* produced are page 1 ... page n without gaps, for an n that is at most   *)
(* the number of pages rasterized; n is the number of pages rasterized     *)
(* when no step failed, and when saving page k failed n is k - 1 (or k,    *)
(* when the failed save left a truncated file).                            *)
(***************************************************************************)
C4_Amended ==
    Returned
    => LET n == Cardinality(Produced)
       IN  /\ Produced = {SpecName(k) : k \in 1..n}
           /\ n <= Len(images)
           /\ failedAt = "none" => n = Len(images)
           /\ failedAt = "save" => n \in {Len(saves) - 1, Len(saves)}
           /\ failedAt \in {"convert", "makedirs"} => n = 0

C4_Witness ==
    /\ pc = "exited"
    /\ failedAt = "save"
    /\ Len(images) = 3
    /\ Cardinality(Produced) = 1

(***************************************************************************)
(* C5 as claimed: for every path that is not an existing file (missing, or *)
(* a directory) the process prints an error and ends with a non-zero exit  *)
(* status without calling the extractor.                                   *)
(***************************************************************************)
C5_Original ==
    (pc = "exited" /\ pdf_file.kind \in {"missing", "dir"})
    => /\ exit_code > 0
       /\ calls = 0

(***************************************************************************)
(* C5 amended: the pre-check requires the path to exist, as a file or as a *)
(* directory.  The extractor is called exactly when the path exists, and   *)
(* the process ends with exit code 1 exactly when it does not; for a       *)
(* directory the extractor is called, fails, and the process prints the    *)
(* failure notice and ends with exit code 0.                               *)
(***************************************************************************)
C5_Amended ==
    (run >= 1 /\ pc # "main")
    => /\ calls = (IF pdf_file.kind = "missing" THEN 0 ELSE 1)
       /\ pc = "exited" => (exit_code = 1 <=> pdf_file.kind = "missing")
       /\ (pc = "exited" /\ pdf_file.kind = "dir")
          => (exit_code = 0 /\ num_pages = 0 /\ Printed("Failed") # {})

C5_Witness ==
    /\ pc = "exited"
    /\ pdf_file.kind = "dir"
    /\ calls = 1
    /\ exit_code = 0

(***************************************************************************)
(* C6: a run never removes a file of the output directory and changes no   *)
(* file other than page_01 ... page_M of its own M pages; it calls save on *)
(* these paths only.  So the files page_(M+1) ... page_N of an earlier run *)
(* of N > M pages are as that run left them.                               *)
(***************************************************************************)
C6_StaleFilesKept ==
    LET own == {SpecName(k) : k \in 1..Len(images)}
    IN  /\ \A n \in DOMAIN startFiles :
              /\ n \in DOMAIN files
              /\ n \notin own => files[n] = startFiles[n]
        /\ \A k \in DOMAIN saves : saves[k].path \in own
        /\ \A n \in DOMAIN files : n \notin DOMAIN startFiles => n \in own
        /\ startDir => dirExists

C6_Witness ==
    /\ pc = "exited"
    /\ num_pages = 1
    /\ <<0, 3>> \in DOMAIN files
    /\ files[<<0, 3>>].run < run
    /\ files[<<0, 3>>].complete
    /\ files[<<0, 1>>].run = run

(***************************************************************************)
(* C7: once the pre-check has passed and the process has ended, its last   *)
(* output is the success summary if the extractor returned a count greater *)
(* than zero and the failure notice otherwise, it printed only one of the  *)
(* two, and its exit code is 0 in both cases.                              *)
(***************************************************************************)
C7_ReportAndExitZero ==
    (pc = "exited" /\ calls = 1)
    => /\ out[Len(out)].kind = (IF num_pages > 0 THEN "Success" ELSE "Failed")
       /\ Cardinality(Printed("Success") \cup Printed("Failed")) = 1
       /\ num_pages > 0 => out[Len(out)].val = num_pages
       /\ exit_code = 0

C7_Witness ==
    /\ pc = "exited"
    /\ failedAt = "save"
    /\ num_pages = 0
    /\ exit_code = 0
    /\ out[Len(out)].kind = "Failed"

(***************************************************************************)
(* C8: every image passed to image.save has mode RGB; it was converted     *)
(* exactly when the rasterized page's mode was not RGB.                    *)
(***************************************************************************)
C8_SavedAsRGB ==
    \A k \in DOMAIN saves :
        /\ saves[k].mode = "RGB"
        /\ saves[k].converted <=> images[saves[k].page] # "RGB"

C8_Witness ==
    /\ Len(saves) = 3
    /\ images = <<"RGB", "L", "RGBA">>
    /\ ~saves[1].converted
    /\ saves[2].converted
    /\ saves[3].converted

(***************************************************************************)
(* C9: the steps of a run come in a fixed order.  Until rasterization has  *)
(* returned, and after it failed, the directory and its files are as the   *)
(* run found them; the directory exists before the first save; the k-th    *)
(* save is that of page k; the j-th "Saved" notice names page j, whose     *)
(* file is written by then, and is printed before page j + 1 is saved; the *)
(* summary is printed only after every page is saved and announced, and    *)
(* never in a run in which a step failed.                                  *)
(***************************************************************************)
C9_StepOrder ==
    run >= 1 =>
    /\ (pc \in {"main", "convert"} \/ failedAt = "convert")
       => (dirExists = startDir /\ files = startFiles /\ saves = <<>> /\ images = <<>>)
    /\ (pc = "makedirs" \/ failedAt = "makedirs")
       => (dirExists = startDir /\ files = startFiles /\ saves = <<>>)
    /\ saves # <<>> => (dirExists /\ images = pdf_file.pages)
    /\ \A k \in DOMAIN saves : saves[k].page = k /\ saves[k].path = SpecName(k)
    /\ Len(SavedNotices) <= Len(saves)
    /\ Len(SavedNotices) >= Len(saves) - 1
    /\ \A j \in DOMAIN SavedNotices :
          /\ SavedNotices[j].val = SpecName(j)
          /\ SpecName(j) \in DOMAIN files
          /\ files[SpecName(j)] = PageFile(j)
    /\ Printed("Extracted") # {}
       => /\ failedAt = "none"
          /\ pc \in {"report", "exited"}
          /\ Len(SavedNotices) = Len(images)
          /\ Len(saves) = Len(images)
          /\ images = pdf_file.pages
          /\ \A k \in Printed("Extracted") : \A j \in Printed("Saved") : j < k
    /\ failedAt # "none" => Printed("Extracted") = {}

C9_Witness ==
    /\ pc = "exited"
    /\ failedAt = "save"
    /\ Len(saves) = 2
    /\ Len(SavedNotices) = 1
    /\ Printed("Extracted") = {}
    /\ Len(images) = 3

(***************************************************************************)
(* C10: within a run no path is passed to save twice: the k-th path is the *)
(* decimal numeral of k, of two digits below 100 and of three from 100 on; *)
(* and a successful run that follows a successful run of the same number   *)
(* of pages (as a re-run on the same PDF is) replaces each file the        *)
(* earlier run wrote and leaves the directory with the file names it       *)
(* found.                                                                  *)
(***************************************************************************)
C10_WriteOnceAndIdempotent ==
    /\ \A k \in DOMAIN saves :
          /\ Value(saves[k].path) = k
          /\ Len(saves[k].path) = (IF k < 100 THEN 2 ELSE 3)
          /\ \A j \in 1..(k - 1) : saves[j].path # saves[k].path
    /\ (pc = "exited" /\ num_pages > 0 /\ prevNum = num_pages)
       => /\ DOMAIN files = DOMAIN startFiles
          /\ \A k \in 1..num_pages :
                /\ startFiles[saves[k].path].run = run - 1
                /\ files[saves[k].path] = PageFile(k)

C10_Witness ==
    /\ pc = "exited"
    /\ run = 2
    /\ num_pages >= 100
    /\ prevNum = num_pages
    /\ DOMAIN files = DOMAIN startFiles
    /\ Len(saves) = num_pages

====
